---- MODULE Spec2Model ----
(***************************************************************************)
(* Least-squares orchestration of src/src/least_squares.rs.                *)
(*                                                                         *)
(* One behaviour fixes one input (A, rhs) and runs the three entry points  *)
(* least_squares, least_squares_into and least_squares_in_place on it, in  *)
(* any order, each as a fresh call on the same input.  The body of         *)
(* least_squares_in_place is modelled step by step, one action per         *)
(* fallible expression of the source, so that the order of the steps and   *)
(* the short-circuit of `?` are visible.                                   *)
(*                                                                         *)
(* Elements are small naturals standing for the scalar type E.  A 1-D      *)
(* right-hand side of length r is stored as an r x 1 column; the operators *)
(* of the Ix1 implementation read column 0 only.                           *)
(*                                                                         *)
(* crate::layout (layout, as_allocated_mut), crate::lapack::least_squares  *)
(* (the *gelsd wrappers) and ndarray's to_owned are not part of the source *)
(* file; they are modelled from the specification's section 4 and 6.       *)
(***************************************************************************)
EXTENDS Integers, Sequences, FiniteSets, TLC

(* ------------------------------ bounds --------------------------------- *)

\* Largest number of rows or columns of A, and of rows of the right-hand side.
MaxDim == 3
\* Largest number of right-hand-side columns in the Ix2 case.
MaxK == 2
\* Largest element value.
MaxVal == 2

Vals == 0..MaxVal
Dims == 1..MaxDim

Min(x, y) == IF x < y THEN x ELSE y
Max(x, y) == IF x < y THEN y ELSE x

(* ------------------------------ arrays --------------------------------- *)

\* An array: its shape, what layout() sees of its strides ("C" row-major,
\* "F" column-major, "none" neither), whether its memory is one contiguous
\* block, and its elements by logical index.
Index(rows, cols) == (0..(rows - 1)) \X (0..(cols - 1))

MkArray(rows, cols, order, contig, data) ==
    [rows |-> rows, cols |-> cols, order |-> order, contig |-> contig, data |-> data]

NoBuf == MkArray(0, 0, "none", FALSE, <<>>)

\* Storage of a two-dimensional array: contiguous row-major, contiguous
\* column-major, strides layout() accepts as row-major over memory that is
\* not contiguous, and strides layout() rejects.
Storage2 ==
    { [order |-> "C", contig |-> TRUE], [order |-> "F", contig |-> TRUE],
      [order |-> "C", contig |-> FALSE], [order |-> "none", contig |-> FALSE] }

\* Storage of a one-dimensional array, which has no matrix layout of its own:
\* contiguous, or a strided view.
Storage1 == { [order |-> "C", contig |-> TRUE], [order |-> "none", contig |-> FALSE] }

\* The storages an array of a given shape can have: a single element is
\* always contiguous, and strides that layout() reads as row-major leave
\* gaps only between the elements of a row.
Realisable(rows, cols, st) ==
    st.contig \/ (rows * cols > 1 /\ (st.order = "C" => cols >= 2))

\* The elements the caller's A and rhs hold before a call.
InputA(m, n) == [p \in Index(m, n) |-> (1 + p[1] + p[2]) % (MaxVal + 1)]
InputB(r, k) == [p \in Index(r, k) |-> (2 + p[1] + 2 * p[2]) % (MaxVal + 1)]

(* --------------------- collaborators outside the file ------------------ *)

\* ArrayBase::to_owned: an owned copy with the same shape and elements.  A
\* contiguous array keeps its strides; otherwise the copy is a freshly
\* allocated, contiguous array in row-major order.
ToOwned(arr) ==
    IF arr.contig
    THEN arr
    ELSE MkArray(arr.rows, arr.cols, "C", TRUE, arr.data)

\* AllocatedArray::layout(): the matrix layout, or an error.
LayoutOk(arr) == arr.order \in {"C", "F"}

\* as_allocated_mut() / as_slice_memory_order_mut(): the flat buffer, or none.
AllocatedOk(arr) == arr.contig

\* What *gelsd leaves in A: the factorisation's intermediate contents.
SolverA(c, arr) == [p \in DOMAIN arr.data |-> c]

\* What *gelsd leaves in the right-hand-side buffer.
SolverB(t, arr) == [p \in DOMAIN arr.data |-> (t + p[1] + 2 * p[2]) % (MaxVal + 1)]

\* The singular values that go with a rank: descending, non-negative,
\* min(m, n) of them.
SolverSv(m, n, rank) == [i \in 1..Min(m, n) |-> IF i <= rank THEN rank + 1 - i ELSE 0]

\* The outcomes of one solver call on A of shape m x n.
SolverOutputs(m, n) ==
    [status : {"ok", "err"}, rank : 0..Min(m, n), t : Vals]

(* ------------------------- result extraction --------------------------- *)

RECURSIVE SumSq(_, _, _, _)
\* Sum of the squares of column j of b over rows lo..hi-1.
SumSq(b, j, lo, hi) ==
    IF lo >= hi THEN 0 ELSE b[<<lo, j>>] * b[<<lo, j>>] + SumSq(b, j, lo + 1, hi)

None == <<>>
Some(v) == <<v>>

\* The residual rule with the strict comparison of the field's doc comment
\* ("If n < m and rank(A) == n").
compute_residual_scalar_strict(m, n, rank, b) ==
    IF m <= n \/ n # rank
    THEN <<>>
    ELSE <<SumSq(b.data, 0, n, b.rows)>>

\* compute_residual_scalar(m, n, rank, b)
compute_residual_scalar(m, n, rank, b) ==
    IF m < n \/ n # rank
    THEN None
    ELSE Some(SumSq(b.data, 0, n, b.rows))

\* compute_residual_array1(m, n, rank, b)
compute_residual_array1(m, n, rank, b) ==
    IF m < n \/ n # rank
    THEN None
    ELSE Some([j \in 0..(b.cols - 1) |-> SumSq(b.data, j, n, b.rows)])

\* rhs.slice(s![0..n]) and rhs.slice(s![..n, ..]) panic when the buffer has
\* fewer than n rows.
SliceInBounds(n, b) == n <= b.rows

\* rhs.slice(s![0..n]).to_owned()
SolutionIx1(n, b) == [i \in 0..(n - 1) |-> b.data[<<i, 0>>]]

\* rhs.slice(s![..self.shape()[1], ..]).to_owned()
SolutionIx2(n, b) == [p \in Index(n, b.cols) |-> b.data[p]]

(* ------------------------------ outcomes ------------------------------- *)

Outcome(kind, err, solution, sv, rank, residual) ==
    [kind |-> kind, err |-> err, solution |-> solution, singular_values |-> sv,
     rank |-> rank, residual_sum_of_squares |-> residual]

NotRun == Outcome("notrun", "", <<>>, <<>>, 0, None)
Err(e) == Outcome("err", e, <<>>, <<>>, 0, None)
Panic == Outcome("panic", "", <<>>, <<>>, 0, None)

Entries == {"least_squares", "least_squares_into", "least_squares_in_place"}

(* ------------------------------- state --------------------------------- *)

VARIABLES
    ix,          \* dimensionality of the right-hand side: "Ix1" or "Ix2"
    origA,       \* the input A, as the caller holds it before each call
    origB,       \* the input right-hand side
    heap,        \* the buffers: the caller's two and the copies of to_owned
    entry,       \* the entry point of the current call
    pc,          \* position in the current call
    selfRef,     \* the buffer least_squares_in_place has as self
    rhsRef,      \* the buffer least_squares_in_place has as rhs
    a_layout,    \* local a_layout
    rhs_layout,  \* local rhs_layout (Ix2)
    solverOut,   \* LeastSquaresOutput of the current call's solver invocation
    stepErr,     \* the error raised by the failing step of the current call
    trace,       \* steps of least_squares_in_place run in the current call
    results,     \* what each entry point returned to its caller
    memo         \* the solver as a function: the outputs it gave, by input

vars ==
    <<ix, origA, origB, heap, entry, pc, selfRef, rhsRef, a_layout, rhs_layout,
      solverOut, stepErr, trace, results, memo>>

Bufs == {"callerA", "callerB", "ownedA", "ownedB"}

NoOutput == [status |-> "none", rank |-> 0, t |-> 0]

\* A's shape, read as self.shape() in the source.
M == heap[selfRef].rows
N == heap[selfRef].cols

Init ==
    /\ ix \in {"Ix1", "Ix2"}
    /\ \E m \in Dims, n \in Dims, sa \in Storage2 :
         /\ Realisable(m, n, sa)
         /\ origA = MkArray(m, n, sa.order, sa.contig, InputA(m, n))
    /\ \E r \in Dims, k \in 1..MaxK, sb \in Storage1 \cup Storage2 :
         /\ ix = "Ix1" => k = 1 /\ sb \in Storage1
         /\ ix = "Ix2" => sb \in Storage2
         /\ Realisable(r, k, sb)
         /\ origB = MkArray(r, k, sb.order, sb.contig, InputB(r, k))
    /\ heap = [b \in Bufs |-> IF b = "callerA" THEN origA
                              ELSE IF b = "callerB" THEN origB ELSE NoBuf]
    /\ entry = "none"
    /\ pc = "idle"
    /\ selfRef = "callerA"
    /\ rhsRef = "callerB"
    /\ a_layout = ""
    /\ rhs_layout = ""
    /\ solverOut = NoOutput
    /\ stepErr = ""
    /\ trace = <<>>
    /\ results = [e \in Entries |-> NotRun]
    /\ memo = {}

(* ----------------------------- entry points ---------------------------- *)

\* least_squares going on with the caller's arrays instead of the copies.
LeastSquaresRefsAliased == [self |-> "callerA", rhs |-> "callerB"]

\* least_squares: `a.least_squares_into(b)`, the call goes on with the
\* copies a and b.
LeastSquaresRefs == [self |-> "ownedA", rhs |-> "ownedB"]

\* least_squares copying into standard (row-major) layout.
LeastSquaresCopiesStandard ==
    [a |-> [ToOwned(origA) EXCEPT !.order = "C"],
     b |-> [ToOwned(origB) EXCEPT !.order = "C"]]

\* least_squares: `let a = self.to_owned(); let b = rhs.to_owned();`
LeastSquaresCopies == [a |-> ToOwned(origA), b |-> ToOwned(origB)]

\* least_squares_into: `self.least_squares_in_place(&mut rhs)` on the moved
\* arguments.
LeastSquaresIntoRefs == [self |-> "callerA", rhs |-> "callerB"]

\* least_squares_into reporting every failure as a solver failure.
IntoReturnMapped(r) == IF r.kind = "err" THEN [r EXCEPT !.err = "Lapack"] ELSE r

\* least_squares_into returns the value of least_squares_in_place.
IntoReturn(r) == r

\* least_squares returns the value of least_squares_into.
LeastSquaresReturn(r) == IntoReturn(r)

\* What the caller of entry point e receives when the in-place body gives r.
Return(e, r) ==
    CASE e = "least_squares" -> LeastSquaresReturn(r)
      [] e = "least_squares_into" -> IntoReturn(r)
      [] OTHER -> r

\* A fresh call of entry point e on the input, with the body working on refs.
Begin(e, h, refs) ==
    /\ pc \in {"idle", "done"}
    /\ results[e] = NotRun
    /\ entry' = e
    /\ heap' = h
    /\ selfRef' = refs.self
    /\ rhsRef' = refs.rhs
    /\ pc' = "a_layout"
    /\ a_layout' = ""
    /\ rhs_layout' = ""
    /\ solverOut' = NoOutput
    /\ stepErr' = ""
    /\ trace' = <<>>
    /\ UNCHANGED <<ix, origA, origB, results, memo>>

CallerHeap ==
    [b \in Bufs |-> IF b = "callerA" THEN origA
                    ELSE IF b = "callerB" THEN origB ELSE NoBuf]

CallLeastSquares ==
    Begin("least_squares",
          [CallerHeap EXCEPT !["ownedA"] = LeastSquaresCopies.a,
                             !["ownedB"] = LeastSquaresCopies.b],
          LeastSquaresRefs)

CallLeastSquaresInto ==
    Begin("least_squares_into", CallerHeap, LeastSquaresIntoRefs)

CallLeastSquaresInPlace ==
    Begin("least_squares_in_place", CallerHeap,
          [self |-> "callerA", rhs |-> "callerB"])

(* ---------------------- least_squares_in_place ------------------------- *)

\* The fallible expressions of the Ix1 body, in evaluation order.
BodyIx1 == <<"a_layout", "a_alloc", "rhs_slice", "solver", "extract">>

\* The Ix2 body with the solver called before the right-hand side's buffer
\* is obtained.
BodyIx2SolverEarly ==
    <<"a_layout", "rhs_layout", "a_alloc", "solver", "rhs_alloc", "extract">>

\* The fallible expressions of the Ix2 body, in evaluation order.
BodyIx2 == <<"a_layout", "rhs_layout", "a_alloc", "rhs_alloc", "solver", "extract">>

Body == IF ix = "Ix1" THEN BodyIx1 ELSE BodyIx2

\* The step after step s.
After(s) ==
    LET i == CHOOSE j \in 1..Len(Body) : Body[j] = s
    IN  IF i < Len(Body) THEN Body[i + 1] ELSE "done"

\* `?` on an Err: the call ends and the error goes to the caller.
Fail(s, e) ==
    /\ pc' = "done"
    /\ stepErr' = e
    /\ trace' = Append(trace, s)
    /\ results' = [results EXCEPT ![entry] = Return(entry, Err(e))]

Advance(s) ==
    /\ pc' = After(s)
    /\ trace' = Append(trace, s)
    /\ UNCHANGED <<stepErr, results>>

\* let a_layout = self.layout()?;
ALayout ==
    /\ pc = "a_layout"
    /\ IF LayoutOk(heap[selfRef])
       THEN Advance("a_layout") /\ a_layout' = heap[selfRef].order
       ELSE Fail("a_layout", "IncompatibleShape") /\ UNCHANGED a_layout
    /\ UNCHANGED <<ix, origA, origB, heap, entry, selfRef, rhsRef, rhs_layout,
                   solverOut, memo>>

\* let rhs_layout = rhs.layout()?;
RhsLayout ==
    /\ pc = "rhs_layout"
    /\ IF LayoutOk(heap[rhsRef])
       THEN Advance("rhs_layout") /\ rhs_layout' = heap[rhsRef].order
       ELSE Fail("rhs_layout", "IncompatibleShape") /\ UNCHANGED rhs_layout
    /\ UNCHANGED <<ix, origA, origB, heap, entry, selfRef, rhsRef, a_layout,
                   solverOut, memo>>

\* self.as_allocated_mut()?
AAlloc ==
    /\ pc = "a_alloc"
    /\ IF AllocatedOk(heap[selfRef])
       THEN Advance("a_alloc")
       ELSE Fail("a_alloc", "MemoryNotCont")
    /\ UNCHANGED <<ix, origA, origB, heap, entry, selfRef, rhsRef, a_layout,
                   rhs_layout, solverOut, memo>>

\* rhs.as_allocated_mut()?
RhsAlloc ==
    /\ pc = "rhs_alloc"
    /\ IF AllocatedOk(heap[rhsRef])
       THEN Advance("rhs_alloc")
       ELSE Fail("rhs_alloc", "MemoryNotCont")
    /\ UNCHANGED <<ix, origA, origB, heap, entry, selfRef, rhsRef, a_layout,
                   rhs_layout, solverOut, memo>>

\* rhs.as_slice_memory_order_mut().ok_or_else(|| LinalgError::MemoryNotCont)?
RhsSlice ==
    /\ pc = "rhs_slice"
    /\ IF AllocatedOk(heap[rhsRef])
       THEN Advance("rhs_slice")
       ELSE Fail("rhs_slice", "MemoryNotCont")
    /\ UNCHANGED <<ix, origA, origB, heap, entry, selfRef, rhsRef, a_layout,
                   rhs_layout, solverOut, memo>>

\* The arguments of the solver call.
SolverKey == [la |-> a_layout, lb |-> rhs_layout, a |-> heap[selfRef], b |-> heap[rhsRef]]

\* <E as LeastSquaresSvdDivideConquer_>::least_squares(..)? and
\* least_squares_nrhs(..)?: the solver overwrites both buffers and gives the
\* singular values and the rank, or an error.  The same arguments give the
\* same output.
Solver ==
    /\ pc = "solver"
    /\ \E o \in SolverOutputs(M, N) :
         /\ \A p \in memo : p[1] = SolverKey => p[2] = o
         /\ memo' = memo \cup {<<SolverKey, o>>}
         /\ solverOut' = o
         /\ heap' = [heap EXCEPT
                ![selfRef] = [@ EXCEPT !.data = SolverA(o.t, heap[selfRef])],
                ![rhsRef] = [@ EXCEPT !.data = SolverB(o.t, heap[rhsRef])]]
         /\ IF o.status = "ok"
            THEN Advance("solver")
            ELSE Fail("solver", "Lapack")
    /\ UNCHANGED <<ix, origA, origB, entry, selfRef, rhsRef, a_layout, rhs_layout>>

\* The LeastSquaresResult of the Ix1 body.
ResultIx1 ==
    Outcome("ok", "", SolutionIx1(N, heap[rhsRef]),
            SolverSv(M, N, solverOut.rank), solverOut.rank,
            compute_residual_scalar(M, N, solverOut.rank, heap[rhsRef]))

\* The LeastSquaresResult of the Ix2 body.
ResultIx2 ==
    Outcome("ok", "", SolutionIx2(N, heap[rhsRef]),
            SolverSv(M, N, solverOut.rank), solverOut.rank,
            compute_residual_array1(M, N, solverOut.rank, heap[rhsRef]))

\* The slices, the residual and Ok(LeastSquaresResult { .. }).
Extract ==
    /\ pc = "extract"
    /\ pc' = "done"
    /\ trace' = Append(trace, "extract")
    /\ results' = [results EXCEPT ![entry] =
          IF ~SliceInBounds(N, heap[rhsRef]) THEN Panic
          ELSE Return(entry, IF ix = "Ix1" THEN ResultIx1 ELSE ResultIx2)]
    /\ UNCHANGED <<ix, origA, origB, heap, entry, selfRef, rhsRef, a_layout,
                   rhs_layout, solverOut, stepErr, memo>>

Next ==
    \/ CallLeastSquares
    \/ CallLeastSquaresInto
    \/ CallLeastSquaresInPlace
    \/ ALayout
    \/ RhsLayout
    \/ AAlloc
    \/ RhsAlloc
    \/ RhsSlice
    \/ Solver
    \/ Extract

Spec == Init /\ [][Next]_vars

(* ------------------------------ properties ----------------------------- *)

\* The solver was invoked in the current call.
Invoked == \E i \in 1..Len(trace) : trace[i] = "solver"

\* The caller's two arrays are as they were before the call.
CallerUnchanged == heap["callerA"] = origA /\ heap["callerB"] = origB

\* Every entry point has been called on the input and its call has ended.
AllRun == pc = "done" /\ \A e \in Entries : results[e] # NotRun

\* The residual is present in outcome r.
Present(r) == r.residual_sum_of_squares # None

C2_BorrowedLeavesCallerUnchanged ==
    entry = "least_squares" => CallerUnchanged

\* A call of least_squares has returned a result after the solver overwrote
\* the internal copy of the right-hand side.
C2_Witness ==
    /\ entry = "least_squares"
    /\ pc = "done"
    /\ results[entry].kind = "ok"
    /\ heap["ownedB"].data # origB.data
    /\ heap["ownedA"].data # origA.data

\* C3 as stated: on the same input and with a deterministic solver the three
\* entry points give the same outcome (the same error or the same result).
C3_AllEntryPointsAgree ==
    AllRun =>
        /\ results["least_squares"] = results["least_squares_into"]
        /\ results["least_squares_into"] = results["least_squares_in_place"]

\* C3 amended: least_squares_into and least_squares_in_place always give the
\* same outcome, and least_squares gives that outcome too when A and the
\* right-hand side are both stored contiguously.
C3_AgreeOnContiguousInput ==
    AllRun =>
        /\ results["least_squares_into"] = results["least_squares_in_place"]
        /\ (origA.contig /\ origB.contig) =>
              results["least_squares"] = results["least_squares_into"]

\* The three entry points have returned the same result on a contiguous
\* column-major input, after the solver ran.
C3_Witness ==
    /\ AllRun
    /\ origA.contig /\ origB.contig
    /\ origA.order = "F" /\ origB.order = "F"
    /\ results["least_squares"].kind = "ok"
    /\ results["least_squares"] = results["least_squares_in_place"]

\* The storage orders of A and of a 2-D right-hand side are mismatched: both
\* contiguous, one row-major and the other column-major, with shapes for which
\* the two orders differ.
Mismatched ==
    /\ ix = "Ix2"
    /\ origA.contig /\ origB.contig
    /\ origA.order # origB.order
    /\ origA.rows >= 2 /\ origA.cols >= 2 /\ origB.rows = origA.rows /\ origB.cols >= 2

\* C4: with mismatched storage orders every entry point fails with
\* IncompatibleShape and the solver is not invoked in that run.
C4_MismatchedLayoutsRejectedBeforeSolver ==
    Mismatched =>
        /\ ~Invoked
        /\ pc = "done" => results[entry] = Err("IncompatibleShape")

\* C5: a call whose right-hand side has a row count other than A's never
\* returns a result.
C5_RowMismatchNeverReturnsResult ==
    (pc = "done" /\ origB.rows # origA.rows) => results[entry].kind # "ok"

\* C6: with a right-hand side of m rows, the buffer handed to the solver has
\* max(m, n) rows, and a call whose solver invocation succeeds returns a
\* result whose solution has n rows.
C6_SolutionHasNRows ==
    origB.rows = origA.rows =>
        /\ Invoked => heap[rhsRef].rows >= Max(origA.rows, origA.cols)
        /\ (pc = "done" /\ solverOut.status = "ok") =>
              /\ results[entry].kind = "ok"
              /\ Cardinality(DOMAIN results[entry].solution)
                    = origA.cols * origB.cols

\* The residual of column j as the sum of the squares of buffer rows n..m.
ResidualRowsNToM(j) ==
    SumSq(heap[rhsRef].data, j, origA.cols, origA.rows)

\* C8: a present residual is, for each right-hand-side column j, the sum of
\* the squares of the overwritten buffer's entries (i, j) over rows n..m and
\* over no other row.
C8_ResidualSumsRowsNToM ==
    (pc = "done" /\ results[entry].kind = "ok" /\ Present(results[entry])) =>
        /\ heap[rhsRef].rows >= origA.rows
        /\ IF ix = "Ix1"
           THEN results[entry].residual_sum_of_squares[1] = ResidualRowsNToM(0)
           ELSE \A j \in 0..(origB.cols - 1) :
                   results[entry].residual_sum_of_squares[1][j] = ResidualRowsNToM(j)

\* The stage of the in-place solve a step belongs to: layout validation,
\* contiguous-buffer acquisition, solver invocation, result extraction.
Stage(s) ==
    CASE s \in {"a_layout", "rhs_layout"} -> 1
      [] s \in {"a_alloc", "rhs_alloc", "rhs_slice"} -> 2
      [] s = "solver" -> 3
      [] OTHER -> 4

\* C9: the steps of an in-place solve run in the order layout validation,
\* buffer acquisition, solver, extraction; a failing step ends the call, its
\* error reaches the caller of every entry point unchanged and no result is
\* returned; a returned result carries the solver's rank and singular values,
\* and a solution, after all steps ran.
C9_StepsInOrderFirstFailureReturned ==
    /\ \A i, j \in 1..Len(trace) :
          i < j => (Stage(trace[i]) <= Stage(trace[j]) /\ trace[i] # trace[j])
    /\ stepErr # "" =>
          /\ pc = "done"
          /\ results[entry] = Err(stepErr)
          /\ trace[Len(trace)] # "extract"
          /\ (stepErr # "Lapack" => ~Invoked)
          /\ (stepErr = "Lapack" => trace[Len(trace)] = "solver")
    /\ (entry # "none" /\ results[entry].kind = "err") => results[entry].err = stepErr
    /\ (pc = "done" /\ results[entry].kind = "ok") =>
          /\ stepErr = ""
          /\ trace = Body
          /\ solverOut.status = "ok"
          /\ results[entry].rank = solverOut.rank
          /\ results[entry].singular_values = SolverSv(origA.rows, origA.cols, solverOut.rank)
          /\ results[entry].solution # <<>>

\* A call of least_squares_into has ended with the error of the contiguity
\* check, returned through the wrapper, the solver not invoked.
C9_Witness ==
    /\ entry = "least_squares_into"
    /\ pc = "done"
    /\ stepErr = "MemoryNotCont"
    /\ results[entry] = Err("MemoryNotCont")
    /\ ~Invoked

\* C10: a call of least_squares_in_place that ends with the error of a layout
\* or contiguity check leaves the caller's A and right-hand side as they were,
\* and the caller's buffers differ from the input only after the solver was
\* invoked.
C10_InPlaceFailureBeforeSolverLeavesBuffers ==
    entry = "least_squares_in_place" =>
        /\ (pc = "done" /\ results[entry].kind = "err"
              /\ results[entry].err \in {"IncompatibleShape", "MemoryNotCont"})
           => CallerUnchanged
        /\ ~CallerUnchanged => Invoked

\* A call of least_squares_in_place on a 2-D right-hand side has failed at the
\* right-hand side's contiguity check, after A's checks passed.
C10_Witness ==
    /\ entry = "least_squares_in_place"
    /\ ix = "Ix2"
    /\ pc = "done"
    /\ results[entry] = Err("MemoryNotCont")
    /\ trace = <<"a_layout", "rhs_layout", "a_alloc", "rhs_alloc">>
    /\ CallerUnchanged

====
